---- MODULE Spec2Model ----
(***************************************************************************)
(* The option store of the notes application (services/options) and the   *)
(* default initializer (services/options_init).                            *)
(*                                                                         *)
(* An option entity is a record [name, value, isSynced].  The in-memory    *)
(* registry becca.options and the persisted options table are sets of     *)
(* entities.  Every function of the two services is an operator on such a  *)
(* store; every action is one call of an exported function.                *)
(***************************************************************************)
EXTENDS Integers, Sequences, FiniteSets, TLC

VARIABLES
    becca_options,              \* becca.options: the in-memory registry
    sql_options,                \* rows of the persisted options table
    becca_loaded,               \* becca.loaded
    process_platform,           \* process.platform
    env_TRILIUM_START_NOTE_ID,  \* process.env.TRILIUM_START_NOTE_ID ("" = unset)
    env_TRILIUM_SAFE_MODE,      \* process.env.TRILIUM_SAFE_MODE ("" = unset)
    prev_options,               \* becca.options before the last call
    lastCall,                   \* the last call: [op, name, value, isSynced]
    runs,                       \* consecutive initStartupOptions calls so far
    nCalls,                     \* number of calls made
    heldMap,                    \* the object a caller got from getOptionMap
    heldAt                      \* becca.options when the caller got it

vars == <<becca_options, sql_options, becca_loaded, process_platform,
          env_TRILIUM_START_NOTE_ID, env_TRILIUM_SAFE_MODE,
          prev_options, lastCall, runs, nCalls, heldMap, heldAt>>

----------------------------------------------------------------------------
(* Bounds and input domains                                                *)

MaxCalls == 3

InputNames == {"theme", "locale"}

InputValues == {"light", "dark"}

Tokens == {"tokenA", "tokenB"}

Times == {"2024-01-01 00:00:00.000Z"}

\* the arguments of initNotSyncedOptions: a new database without sync
\* configuration, and a database created for sync; "" stands for a field of
\* opts that is not given
NotSyncedArgs == {[initialized |-> TRUE,
                   opts |-> [field \in {} |-> ""]],
                  [initialized |-> FALSE,
                   opts |-> [syncServerHost |-> "https://sync.example",
                             syncProxy |-> "http://proxy.example"]]}

StartNoteIds == {"", "abc123"}

SafeModes == {"", "1"}

DbVersions == {228}

Platforms == {"win32", "linux"}

----------------------------------------------------------------------------
(* Results of the accessors: a value, null, or a thrown Error              *)

Null == [kind |-> "null", value |-> ""]

Value(v) == [kind |-> "value", value |-> v]

Throw(message) == [kind |-> "throw", value |-> message]

\* a number, a boolean, NaN and a missing argument
Number(n) == [kind |-> "number", number |-> n]

Boolean(b) == [kind |-> "boolean", boolean |-> b]

NaN == [kind |-> "NaN", number |-> 0]

undefined == [kind |-> "undefined", number |-> 0]

----------------------------------------------------------------------------
(* JavaScript helpers                                                      *)

LowerCase == <<"a","b","c","d","e","f","g","h","i","j","k","l","m",
               "n","o","p","q","r","s","t","u","v","w","x","y","z">>

UpperCase == <<"A","B","C","D","E","F","G","H","I","J","K","L","M",
               "N","O","P","Q","R","S","T","U","V","W","X","Y","Z">>

\* String.prototype.toUpperCase on a one-character string
toUpperCase(c) ==
    IF \E i \in 1..26 : LowerCase[i] = c
    THEN UpperCase[CHOOSE i \in 1..26 : LowerCase[i] = c]
    ELSE c

\* the string spelled by a sequence of characters
RECURSIVE join(_)
join(chars) == IF chars = <<>> THEN "" ELSE Head(chars) \o join(Tail(chars))

RECURSIVE stringifyItems(_)
stringifyItems(items) ==
    IF items = <<>> THEN ""
    ELSE "\"" \o Head(items) \o "\""
         \o (IF Tail(items) = <<>> THEN "" ELSE ",")
         \o stringifyItems(Tail(items))

\* JSON.stringify of an array of strings
JSON_stringify(items) == "[" \o stringifyItems(items) \o "]"

\* JSON.stringify([{ notePath: notePath, active: true }])
openNoteContextsJson(notePath) ==
    "[{\"notePath\":\"" \o notePath \o "\",\"active\":true}]"

\* the stored strings the typed accessors are applied to, spelled as
\* sequences of characters
IntChars == { <<"4","2">>, <<"-","1">>, <<"a","b","c">>,
              <<"1","2","a","b","c">>, <<"0","x","1","0">>, <<>>,
              <<" ","7">>, <<"1",".","0">> }

BoolChars == { <<"t","r","u","e">>, <<"f","a","l","s","e">>, <<"1">>,
               <<"T","R","U","E">> }

IntStrings == {join(cs) : cs \in IntChars}

BoolStrings == {join(cs) : cs \in BoolChars}

\* the characters of a stored string
charsOf(string) == CHOOSE cs \in IntChars \cup BoolChars : join(cs) = string

WhiteSpace == {" ", "\t", "\n"}

RECURSIVE trimStart(_)
trimStart(cs) ==
    IF cs # <<>> /\ Head(cs) \in WhiteSpace THEN trimStart(Tail(cs)) ELSE cs

HexDigits == <<"0","1","2","3","4","5","6","7","8","9",
               "a","b","c","d","e","f">>

HexDigitsUpper == <<"0","1","2","3","4","5","6","7","8","9",
                    "A","B","C","D","E","F">>

\* the value of a digit character, -1 for any other character
digitValue(c) ==
    IF \E i \in 1..16 : HexDigits[i] = c
    THEN (CHOOSE i \in 1..16 : HexDigits[i] = c) - 1
    ELSE IF \E i \in 1..16 : HexDigitsUpper[i] = c
    THEN (CHOOSE i \in 1..16 : HexDigitsUpper[i] = c) - 1
    ELSE -1

\* the longest prefix of cs made of digits of the radix, and its value
RECURSIVE digitsPrefix(_, _, _)
digitsPrefix(cs, radix, acc) ==
    IF cs # <<>> /\ digitValue(Head(cs)) \in 0..(radix - 1)
    THEN digitsPrefix(Tail(cs), radix,
                      [any |-> TRUE,
                       n |-> acc.n * radix + digitValue(Head(cs))])
    ELSE acc

\* parseInt(string) with no radix argument: leading white space is skipped,
\* a sign is read, a 0x or 0X prefix selects radix 16, and the longest prefix
\* of digits is converted; the rest of the string is ignored
parseInt(cs) ==
    LET s        == trimStart(cs)
        negative == s # <<>> /\ Head(s) = "-"
        unsigned == IF s # <<>> /\ Head(s) \in {"+", "-"} THEN Tail(s) ELSE s
        hex      == /\ Len(unsigned) >= 2
                    /\ unsigned[1] = "0"
                    /\ unsigned[2] \in {"x", "X"}
        radix    == IF hex THEN 16 ELSE 10
        body     == IF hex THEN Tail(Tail(unsigned)) ELSE unsigned
        digits   == digitsPrefix(body, radix, [any |-> FALSE, n |-> 0])
    IN  IF ~digits.any THEN NaN
        ELSE Number(IF negative THEN 0 - digits.n ELSE digits.n)

----------------------------------------------------------------------------
(* The entity registry (becca) and the options table (sql)                 *)

\* new BOption({ name, value, isSynced })
BOption(name, value, isSynced) ==
    [name |-> name, value |-> value, isSynced |-> isSynced]

\* the registry and the table a call works on
Store(options, rows) == [options |-> options, rows |-> rows]

\* becca.getOption(name): the entity registered under the name, if any
becca_getOption(st, name) == {o \in st.options : o.name = name}

\* sql.getRow("SELECT * FROM options WHERE name = ?", [name])
sql_getRow(st, name) == {r \in st.rows : r.name = name}

\* BOption.save(): the entity is registered under its name and its row is
\* written to the options table; an entity or row of that name is replaced
save(st, option) ==
    Store({o \in st.options : o.name # option.name} \cup {option},
          {r \in st.rows : r.name # option.name} \cup {option})

----------------------------------------------------------------------------
(* services/options                                                        *)

\* mutant: a missing option is reported by throwing, as getOption does
getOptionOrNull_throws(st, loaded, name) ==
    LET option == IF loaded THEN becca_getOption(st, name)
                            ELSE sql_getRow(st, name)
    IN  IF option # {} THEN Value((CHOOSE o \in option : TRUE).value)
                       ELSE Throw("Option '" \o name \o "' doesn't exist")

getOptionOrNull(st, loaded, name) ==
    LET option == IF loaded THEN becca_getOption(st, name)
                            ELSE sql_getRow(st, name)
    IN  IF option # {} THEN Value((CHOOSE o \in option : TRUE).value)
                       ELSE Null

\* mutant: the null test is inverted
getOption_inverted(st, loaded, name) ==
    LET val == getOptionOrNull(st, loaded, name)
    IN  IF val # Null
        THEN Throw("Option '" \o name \o "' doesn't exist")
        ELSE val

getOption(st, loaded, name) ==
    LET val == getOptionOrNull(st, loaded, name)
    IN  IF val = Null
        THEN Throw("Option '" \o name \o "' doesn't exist")
        ELSE val

\* mutant: the default also stands in for an option that does not exist
getOptionInt_defaultsMissing(st, loaded, name, defaultValue) ==
    LET val    == getOptionOrNull(st, loaded, name)
        intVal == IF val = Null THEN NaN ELSE parseInt(charsOf(val.value))
    IN  IF intVal = NaN
        THEN IF defaultValue = undefined
             THEN Throw("Could not parse '" \o val.value
                        \o "' into integer for option '" \o name \o "'")
             ELSE defaultValue
        ELSE intVal

getOptionInt(st, loaded, name, defaultValue) ==
    LET val    == getOption(st, loaded, name)
        intVal == parseInt(charsOf(val.value))
    IN  IF val.kind = "throw" THEN val
        ELSE IF intVal = NaN
        THEN IF defaultValue = undefined
             THEN Throw("Could not parse '" \o val.value
                        \o "' into integer for option '" \o name \o "'")
             ELSE defaultValue
        ELSE intVal

\* mutant: every string other than 'true' reads as false
getOptionBool_lenient(st, loaded, name) ==
    LET val == getOption(st, loaded, name)
    IN  IF val.kind = "throw" THEN val
        ELSE Boolean(val.value = "true")

getOptionBool(st, loaded, name) ==
    LET val == getOption(st, loaded, name)
    IN  IF val.kind = "throw" THEN val
        ELSE IF val.value \notin {"true", "false"}
        THEN Throw("Could not parse '" \o val.value
                   \o "' into boolean for option '" \o name \o "'")
        ELSE Boolean(val.value = "true")

\* mutant: the new entity is added beside an entity of the same name
createOption_beside(st, name, value, isSynced) ==
    Store(st.options \cup {BOption(name, value, isSynced)},
          st.rows \cup {BOption(name, value, isSynced)})

createOption(st, name, value, isSynced) ==
    save(st, BOption(name, value, isSynced))

\* mutant: an option created by setOption is synced
setOption_synced(st, name, value) ==
    LET option == becca_getOption(st, name)
    IN  IF option # {}
        THEN save(st, [(CHOOSE o \in option : TRUE) EXCEPT !.value = value])
        ELSE createOption(st, name, value, TRUE)

\* mutant: an existing option is created anew instead of being updated
setOption_recreate(st, name, value) ==
    createOption(st, name, value, FALSE)

setOption(st, name, value) ==
    LET option == becca_getOption(st, name)
    IN  IF option # {}
        THEN save(st, [(CHOOSE o \in option : TRUE) EXCEPT !.value = value])
        ELSE createOption(st, name, value, FALSE)

getOptions(st) == st.options

getOptionMap(st) ==
    [name \in {o.name : o \in st.options} |->
        (CHOOSE o \in st.options : o.name = name).value]

\* mutant: the caller is handed a view of the registry
returnedMap_live(st) ==
    [held |-> TRUE, live |-> TRUE, map |-> getOptionMap(st)]

\* what getOptionMap hands to its caller: a new object (const map = {})
\* filled from the options, which no later call writes to
returnedMap(st) ==
    [held |-> TRUE, live |-> FALSE, map |-> getOptionMap(st)]

\* what a caller reads in an object it got from getOptionMap
readMap(object, st) ==
    IF object.live THEN getOptionMap(st) ELSE object.map

----------------------------------------------------------------------------
(* services/options_init: the default table                                *)

Literal(text) == [kind |-> "literal", text |-> text]

Function(id) == [kind |-> "function", text |-> id]

D(name, value, isSynced) ==
    [name |-> name, value |-> value, isSynced |-> isSynced]

\* mutant: the value does not depend on the theme
codeBlockTheme_value_fixed(optionsMap) == "default:stackoverflow-dark"

\* the value function of the codeBlockTheme descriptor
codeBlockTheme_value(optionsMap) ==
    IF "theme" \in DOMAIN optionsMap /\ optionsMap["theme"] = "light"
    THEN "default:stackoverflow-light"
    ELSE "default:stackoverflow-dark"

allowedHtmlTagList == <<
    "h1", "h2", "h3", "h4", "h5", "h6", "blockquote", "p", "a", "ul",
    "ol", "li", "b", "i", "strong", "em", "strike", "s", "del",
    "abbr", "code", "hr", "br", "div", "table", "thead", "caption",
    "tbody", "tfoot", "tr", "th", "td", "pre", "section", "img",
    "figure", "figcaption", "span", "label", "input", "details",
    "summary", "address", "aside", "footer", "header", "hgroup",
    "main", "nav", "dl", "dt", "menu", "bdi", "bdo", "dfn", "kbd",
    "mark", "q", "time", "var", "wbr", "area", "map", "track",
    "video", "audio", "picture", "del", "ins", "en-media", "acronym",
    "article", "big", "button", "cite", "col", "colgroup", "data",
    "dd", "fieldset", "form", "legend", "meter", "noscript", "option",
    "progress", "rp", "samp", "small", "sub", "sup", "template",
    "textarea", "tt" >>

defaultOptions == <<
    D("revisionSnapshotTimeInterval", Literal("600"), TRUE),
    D("revisionSnapshotNumberLimit", Literal("-1"), TRUE),
    D("protectedSessionTimeout", Literal("600"), TRUE),
    D("zoomFactor", Literal(IF process_platform = "win32" THEN "0.9" ELSE "1.0"), FALSE),
    D("overrideThemeFonts", Literal("false"), FALSE),
    D("mainFontFamily", Literal("theme"), FALSE),
    D("mainFontSize", Literal("100"), FALSE),
    D("treeFontFamily", Literal("theme"), FALSE),
    D("treeFontSize", Literal("100"), FALSE),
    D("detailFontFamily", Literal("theme"), FALSE),
    D("detailFontSize", Literal("110"), FALSE),
    D("monospaceFontFamily", Literal("theme"), FALSE),
    D("monospaceFontSize", Literal("110"), FALSE),
    D("spellCheckEnabled", Literal("true"), FALSE),
    D("spellCheckLanguageCode", Literal("en-US"), FALSE),
    D("imageMaxWidthHeight", Literal("2000"), TRUE),
    D("imageJpegQuality", Literal("75"), TRUE),
    D("autoFixConsistencyIssues", Literal("true"), FALSE),
    D("vimKeymapEnabled", Literal("false"), FALSE),
    D("codeLineWrapEnabled", Literal("true"), FALSE),
    D("codeNotesMimeTypes", Literal("[\"text/x-csrc\",\"text/x-c++src\",\"text/x-csharp\",\"text/css\",\"text/x-go\",\"text/x-groovy\",\"text/x-haskell\",\"text/html\",\"message/http\",\"text/x-java\",\"application/javascript;env=frontend\",\"application/javascript;env=backend\",\"application/json\",\"text/x-kotlin\",\"text/x-markdown\",\"text/x-perl\",\"text/x-php\",\"text/x-python\",\"text/x-ruby\",null,\"text/x-sql\",\"text/x-sqlite;schema=trilium\",\"text/x-swift\",\"text/xml\",\"text/x-yaml\",\"text/x-sh\"]"), TRUE),
    D("leftPaneWidth", Literal("25"), FALSE),
    D("leftPaneVisible", Literal("true"), FALSE),
    D("rightPaneWidth", Literal("25"), FALSE),
    D("rightPaneVisible", Literal("true"), FALSE),
    D("nativeTitleBarVisible", Literal("false"), FALSE),
    D("eraseEntitiesAfterTimeInSeconds", Literal("604800"), TRUE),
    D("hideArchivedNotes_main", Literal("false"), FALSE),
    D("debugModeEnabled", Literal("false"), FALSE),
    D("headingStyle", Literal("underline"), TRUE),
    D("autoCollapseNoteTree", Literal("true"), TRUE),
    D("autoReadonlySizeText", Literal("10000"), FALSE),
    D("autoReadonlySizeCode", Literal("30000"), FALSE),
    D("dailyBackupEnabled", Literal("true"), FALSE),
    D("weeklyBackupEnabled", Literal("true"), FALSE),
    D("monthlyBackupEnabled", Literal("true"), FALSE),
    D("maxContentWidth", Literal("1200"), FALSE),
    D("compressImages", Literal("true"), TRUE),
    D("downloadImagesAutomatically", Literal("true"), TRUE),
    D("minTocHeadings", Literal("5"), TRUE),
    D("highlightsList", Literal("[\"bold\",\"italic\",\"underline\",\"color\",\"bgColor\"]"), TRUE),
    D("checkForUpdates", Literal("true"), TRUE),
    D("disableTray", Literal("false"), FALSE),
    D("eraseUnusedAttachmentsAfterSeconds", Literal("2592000"), TRUE),
    D("customSearchEngineName", Literal("DuckDuckGo"), TRUE),
    D("customSearchEngineUrl", Literal("https://duckduckgo.com/?q={keyword}"), TRUE),
    D("promotedAttributesOpenInRibbon", Literal("true"), TRUE),
    D("editedNotesOpenInRibbon", Literal("true"), TRUE),
    D("locale", Literal("en"), TRUE),
    D("firstDayOfWeek", Literal("1"), TRUE),
    D("codeBlockTheme", Function("codeBlockTheme"), FALSE),
    D("codeBlockWordWrap", Literal("false"), TRUE),
    D("textNoteEditorType", Literal("ckeditor-balloon"), TRUE),
    D("textNoteEditorMultilineToolbar", Literal("false"), TRUE),
    D("layoutOrientation", Literal("vertical"), FALSE),
    D("backgroundEffects", Literal("false"), FALSE),
    D("allowedHtmlTags", Literal(JSON_stringify(allowedHtmlTagList)), TRUE) >>

\* keyboardActions.getDefaultKeyboardActions(): actions and separators; an
\* action name is the sequence of its characters
getDefaultKeyboardActions == <<
    [actionName |-> <<>>, defaultShortcuts |-> <<>>],
    [actionName |-> <<"j","u","m","p","T","o","N","o","t","e">>,
     defaultShortcuts |-> <<"CommandOrControl+J">>],
    [actionName |-> <<"z","o","o","m","I","n">>,
     defaultShortcuts |-> <<"CommandOrControl+=", "CommandOrControl+Plus">>],
    [actionName |-> <<"f","o","r","c","e","S","a","v","e">>,
     defaultShortcuts |-> <<>>] >>

\* mutant: the action name is appended without capitalising its first letter
RECURSIVE keyboardDefaults_uncapitalised(_)
keyboardDefaults_uncapitalised(actions) ==
    IF actions = <<>> THEN <<>>
    ELSE LET ka == Head(actions)
         IN  (IF ka.actionName # <<>>
              THEN << D("keyboardShortcuts" \o join(ka.actionName),
                        Literal(JSON_stringify(ka.defaultShortcuts)),
                        FALSE) >>
              ELSE <<>>)
             \o keyboardDefaults_uncapitalised(Tail(actions))

RECURSIVE keyboardDefaults(_)
keyboardDefaults(actions) ==
    IF actions = <<>> THEN <<>>
    ELSE LET ka == Head(actions)
         IN  (IF ka.actionName # <<>>
              THEN << D("keyboardShortcuts"
                          \o toUpperCase(Head(ka.actionName))
                          \o join(Tail(ka.actionName)),
                        Literal(JSON_stringify(ka.defaultShortcuts)),
                        FALSE) >>
              ELSE <<>>)
             \o keyboardDefaults(Tail(actions))

getKeyboardDefaultOptions == keyboardDefaults(getDefaultKeyboardActions)

\* mutant: the keyboard defaults are appended twice
allDefaultOptions_twice ==
    defaultOptions \o getKeyboardDefaultOptions \o getKeyboardDefaultOptions

allDefaultOptions == defaultOptions \o getKeyboardDefaultOptions

----------------------------------------------------------------------------
(* services/options_init: the initializers                                 *)

initDocumentOptions(st, token1, token2) ==
    LET s1 == createOption(st, "documentId", token1, FALSE)
    IN  createOption(s1, "documentSecret", token2, FALSE)

\* mutant: a field that is not given is stored as it is
orEmpty_undefined(opts, field) ==
    IF field \in DOMAIN opts THEN opts[field] ELSE "undefined"

\* opts[field] || ''
orEmpty(opts, field) ==
    IF field \in DOMAIN opts /\ opts[field] # "" THEN opts[field] ELSE ""

initNotSyncedOptions(st, initialized, opts, now, dbVersion) ==
    LET s1  == createOption(st, "openNoteContexts",
                            openNoteContextsJson("root"), FALSE)
        s2  == createOption(s1, "lastDailyBackupDate", now[1], FALSE)
        s3  == createOption(s2, "lastWeeklyBackupDate", now[2], FALSE)
        s4  == createOption(s3, "lastMonthlyBackupDate", now[3], FALSE)
        s5  == createOption(s4, "dbVersion", ToString(dbVersion), FALSE)
        s6  == createOption(s5, "initialized",
                            IF initialized THEN "true" ELSE "false", FALSE)
        s7  == createOption(s6, "lastSyncedPull", "0", FALSE)
        s8  == createOption(s7, "lastSyncedPush", "0", FALSE)
        s9  == createOption(s8, "theme", "next", FALSE)
        s10 == createOption(s9, "syncServerHost",
                            orEmpty(opts, "syncServerHost"), FALSE)
        s11 == createOption(s10, "syncServerTimeout", "120000", FALSE)
    IN  createOption(s11, "syncProxy", orEmpty(opts, "syncProxy"), FALSE)

\* the value a descriptor resolves to
resolvedValue(value, optionsMap) ==
    IF value.kind = "function" THEN codeBlockTheme_value(optionsMap)
                               ELSE value.text

\* mutant: the loop creates every descriptor, present in the map or not
RECURSIVE createMissing_always(_, _, _, _)
createMissing_always(st, optionsMap, table, i) ==
    IF i > Len(table) THEN st
    ELSE LET d == table[i]
             next == createOption(st, d.name,
                                  resolvedValue(d.value, optionsMap),
                                  d.isSynced)
         IN  IF next = next
             THEN createMissing_always(next, optionsMap, table, i + 1)
             ELSE next

\* the loop of initStartupOptions over the descriptors from index i on; each
\* iteration's store is evaluated before the next iteration starts
RECURSIVE createMissing(_, _, _, _)
createMissing(st, optionsMap, table, i) ==
    IF i > Len(table) THEN st
    ELSE LET d == table[i]
             next == IF d.name \notin DOMAIN optionsMap
                     THEN createOption(st, d.name,
                                       resolvedValue(d.value, optionsMap),
                                       d.isSynced)
                     ELSE st
         IN  IF next = next
             THEN createMissing(next, optionsMap, table, i + 1)
             ELSE next

\* mutant: the override adds its context to the stored openNoteContexts
\* instead of replacing them
initStartupOptions_adds(st, startNoteId, safeMode) ==
    LET optionsMap == getOptionMap(st)
        created    == createMissing(st, optionsMap, allDefaultOptions, 1)
        stored     == getOptionOrNull(created, TRUE, "openNoteContexts").value
    IN  IF startNoteId # "" \/ safeMode # ""
        THEN setOption(created, "openNoteContexts",
                 stored \o openNoteContextsJson(
                     IF startNoteId # "" THEN startNoteId ELSE "root"))
        ELSE created

\* mutant: the override needs both environment variables
initStartupOptions_both(st, startNoteId, safeMode) ==
    LET optionsMap == getOptionMap(st)
        created    == createMissing(st, optionsMap, allDefaultOptions, 1)
    IN  IF startNoteId # "" /\ safeMode # ""
        THEN setOption(created, "openNoteContexts",
                 openNoteContextsJson(IF startNoteId # "" THEN startNoteId
                                                          ELSE "root"))
        ELSE created

\* mutant: the defaults are created in a store emptied first
initStartupOptions_rebuild(st, startNoteId, safeMode) ==
    LET optionsMap == getOptionMap(st)
        created    == createMissing(Store({}, {}), optionsMap,
                                    allDefaultOptions, 1)
    IN  IF startNoteId # "" \/ safeMode # ""
        THEN setOption(created, "openNoteContexts",
                 openNoteContextsJson(IF startNoteId # "" THEN startNoteId
                                                          ELSE "root"))
        ELSE created

initStartupOptions(st, startNoteId, safeMode) ==
    LET optionsMap == getOptionMap(st)
        created    == createMissing(st, optionsMap, allDefaultOptions, 1)
    IN  IF startNoteId # "" \/ safeMode # ""
        THEN setOption(created, "openNoteContexts",
                 openNoteContextsJson(IF startNoteId # "" THEN startNoteId
                                                          ELSE "root"))
        ELSE created

\* the names whose save may fail
FailingNames == {"revisionSnapshotTimeInterval", "locale",
                 "keyboardShortcutsZoomIn"}

\* mutant: a failed createOption is caught and the loop goes on
RECURSIVE createMissingOrThrow_caught(_, _, _, _, _)
createMissingOrThrow_caught(st, optionsMap, table, i, failing) ==
    IF i > Len(table) THEN [store |-> st, thrown |-> FALSE]
    ELSE LET d == table[i]
             next == IF d.name \notin DOMAIN optionsMap /\ d.name # failing
                     THEN createOption(st, d.name,
                                       resolvedValue(d.value, optionsMap),
                                       d.isSynced)
                     ELSE st
         IN  IF next = next
             THEN createMissingOrThrow_caught(next, optionsMap, table, i + 1,
                                              failing)
             ELSE [store |-> next, thrown |-> FALSE]

\* the loop of initStartupOptions when the save of the option `failing`
\* throws: the loop has no try, so the exception ends it
RECURSIVE createMissingOrThrow(_, _, _, _, _)
createMissingOrThrow(st, optionsMap, table, i, failing) ==
    IF i > Len(table) THEN [store |-> st, thrown |-> FALSE]
    ELSE LET d == table[i]
             next == IF d.name \notin DOMAIN optionsMap
                     THEN createOption(st, d.name,
                                       resolvedValue(d.value, optionsMap),
                                       d.isSynced)
                     ELSE st
         IN  IF d.name \notin DOMAIN optionsMap /\ d.name = failing
             THEN [store |-> st, thrown |-> TRUE]
             ELSE IF next = next
             THEN createMissingOrThrow(next, optionsMap, table, i + 1,
                                       failing)
             ELSE [store |-> next, thrown |-> FALSE]

\* mutant: a failed run leaves the store as it found it
initStartupOptionsOrThrow_rollback(st, startNoteId, safeMode, failing) ==
    LET optionsMap == getOptionMap(st)
        loop       == createMissingOrThrow(st, optionsMap, allDefaultOptions,
                                           1, failing)
    IN  IF loop.thrown THEN [store |-> st, thrown |-> TRUE]
        ELSE IF startNoteId # "" \/ safeMode # ""
        THEN [store |-> setOption(loop.store, "openNoteContexts",
                           openNoteContextsJson(
                               IF startNoteId # "" THEN startNoteId
                                                   ELSE "root")),
              thrown |-> FALSE]
        ELSE loop

\* initStartupOptions when the save of the option `failing` throws: the
\* function has no try either, so the override is not reached
initStartupOptionsOrThrow(st, startNoteId, safeMode, failing) ==
    LET optionsMap == getOptionMap(st)
        loop       == createMissingOrThrow(st, optionsMap, allDefaultOptions,
                                           1, failing)
    IN  IF loop.thrown THEN loop
        ELSE IF startNoteId # "" \/ safeMode # ""
        THEN [store |-> setOption(loop.store, "openNoteContexts",
                           openNoteContextsJson(
                               IF startNoteId # "" THEN startNoteId
                                                   ELSE "root")),
              thrown |-> FALSE]
        ELSE loop

----------------------------------------------------------------------------
(* The state machine: one action per call of an exported function          *)

Call(op, name, value, isSynced) ==
    [op |-> op, name |-> name, value |-> value, isSynced |-> isSynced]

current == Store(becca_options, sql_options)

\* the call `call` took the store to `st`
Returned(st, call) ==
    /\ nCalls < MaxCalls
    /\ becca_options' = st.options
    /\ sql_options' = st.rows
    /\ prev_options' = becca_options
    /\ lastCall' = call
    /\ runs' = IF call.op = "initStartupOptions" THEN runs + 1 ELSE 0
    /\ nCalls' = nCalls + 1
    /\ UNCHANGED <<becca_loaded, process_platform,
                   env_TRILIUM_START_NOTE_ID, env_TRILIUM_SAFE_MODE>>
    /\ UNCHANGED <<heldMap, heldAt>>

\* the options table an earlier process left behind
PersistedRows == {{},
                  {BOption("locale", "en", TRUE)},
                  {BOption("locale", "en", TRUE),
                   BOption("theme", "dark", FALSE)}}

\* a process started on an existing table: the registry holds the rows once
\* becca is loaded, and nothing before that (initial sync)
InitProcess ==
    /\ sql_options \in PersistedRows
    /\ becca_loaded \in BOOLEAN
    /\ becca_options = IF becca_loaded THEN sql_options ELSE {}
    /\ process_platform \in Platforms
    /\ env_TRILIUM_START_NOTE_ID \in StartNoteIds
    /\ env_TRILIUM_SAFE_MODE \in SafeModes
    /\ prev_options = becca_options
    /\ lastCall = Call("none", "", "", FALSE)
    /\ runs = 0
    /\ nCalls = 0
    /\ heldMap = [held |-> FALSE, live |-> FALSE, map |-> [n \in {} |-> ""]]
    /\ heldAt = {}

Init ==
    /\ becca_options = {}
    /\ sql_options = {}
    /\ becca_loaded = TRUE
    /\ process_platform \in Platforms
    /\ env_TRILIUM_START_NOTE_ID \in StartNoteIds
    /\ env_TRILIUM_SAFE_MODE \in SafeModes
    /\ prev_options = {}
    /\ lastCall = Call("none", "", "", FALSE)
    /\ runs = 0
    /\ nCalls = 0
    /\ heldMap = [held |-> FALSE, live |-> FALSE, map |-> [n \in {} |-> ""]]
    /\ heldAt = {}

CallCreateOption ==
    \E name \in InputNames, value \in InputValues, isSynced \in BOOLEAN :
        Returned(createOption(current, name, value, isSynced),
                 Call("createOption", name, value, isSynced))

CallSetOption ==
    \E name \in InputNames, value \in InputValues :
        Returned(setOption(current, name, value),
                 Call("setOption", name, value, FALSE))

CallInitDocumentOptions ==
    \E token1 \in Tokens : \E token2 \in Tokens \ {token1} :
        Returned(initDocumentOptions(current, token1, token2),
                 Call("initDocumentOptions", "", "", FALSE))

CallInitNotSyncedOptions ==
    \E args \in NotSyncedArgs, now \in [1..3 -> Times],
       dbVersion \in DbVersions :
        Returned(initNotSyncedOptions(current, args.initialized, args.opts,
                                      now, dbVersion),
                 Call("initNotSyncedOptions", "", "", args.initialized))

CallInitStartupOptions ==
    Returned(initStartupOptions(current, env_TRILIUM_START_NOTE_ID,
                                env_TRILIUM_SAFE_MODE),
             Call("initStartupOptions", "", "", FALSE))

\* setOption with the value of a number or boolean option
CallSetTypedOption ==
    \E input \in ({"mainFontSize"} \X IntStrings)
                    \cup ({"spellCheckEnabled"} \X BoolStrings) :
        Returned(setOption(current, input[1], input[2]),
                 Call("setOption", input[1], input[2], FALSE))

\* a caller takes the option map and keeps it
CallGetOptionMap ==
    /\ nCalls < MaxCalls
    /\ heldMap' = returnedMap(current)
    /\ heldAt' = becca_options
    /\ prev_options' = becca_options
    /\ lastCall' = Call("getOptionMap", "", "", FALSE)
    /\ runs' = 0
    /\ nCalls' = nCalls + 1
    /\ UNCHANGED <<becca_options, sql_options, becca_loaded, process_platform,
                   env_TRILIUM_START_NOTE_ID, env_TRILIUM_SAFE_MODE>>

\* initStartupOptions while the save of one option fails
CallInitStartupOptionsOrThrow ==
    \E failing \in FailingNames :
        LET result == initStartupOptionsOrThrow(current,
                          env_TRILIUM_START_NOTE_ID, env_TRILIUM_SAFE_MODE,
                          failing)
        IN  Returned(result.store,
                     Call("initStartupOptions", failing,
                          IF result.thrown THEN "thrown" ELSE "returned",
                          FALSE))

\* the one-time bootstrap of a new database: both initializers, once
CallBootstrap ==
    /\ becca_options = {}
    /\ \E token1 \in Tokens : \E token2 \in Tokens \ {token1} :
       \E args \in NotSyncedArgs, now \in [1..3 -> Times],
          dbVersion \in DbVersions :
           Returned(initNotSyncedOptions(
                        initDocumentOptions(current, token1, token2),
                        args.initialized, args.opts, now, dbVersion),
                    Call("bootstrap", "", "", args.initialized))

\* initStartupOptions on a bootstrapped database
CallStartup ==
    /\ becca_options # {}
    /\ CallInitStartupOptions

Next ==
    \/ CallCreateOption
    \/ CallSetOption
    \/ CallInitDocumentOptions
    \/ CallInitNotSyncedOptions
    \/ CallInitStartupOptions

Spec == Init /\ [][Next]_vars

\* calls that store the values the typed accessors read
NextTyped == CallSetTypedOption \/ CallInitDocumentOptions

SpecTyped == Init /\ [][NextTyped]_vars

\* callers that keep an option map while options are written
NextSnapshot == CallCreateOption \/ CallSetOption \/ CallGetOptionMap

SpecSnapshot == Init /\ [][NextSnapshot]_vars

\* startups during which a save fails
NextFailure == CallSetOption \/ CallInitStartupOptionsOrThrow

SpecFailure == Init /\ [][NextFailure]_vars

\* the life of a new database: the bootstrap, then startups
NextStartup == CallBootstrap \/ CallStartup

SpecStartup == Init /\ [][NextStartup]_vars

\* writes of a process that may not have loaded becca
NextProcess == CallCreateOption \/ CallSetOption

SpecProcess == InitProcess /\ [][NextProcess]_vars

----------------------------------------------------------------------------
(* Properties                                                              *)

\* the store before the last call (every row mirrors a registered entity)
previous == Store(prev_options, prev_options)

names(options) == {o.name : o \in options}

\* the last call was op
Did(op) == lastCall.op = op

\* the last call was op on a name that existed (did not exist) before it
DidOnExisting(op) == Did(op) /\ lastCall.name \in names(prev_options)

DidOnAbsent(op) == Did(op) /\ lastCall.name \notin names(prev_options)

NoOverride == env_TRILIUM_START_NOTE_ID = "" /\ env_TRILIUM_SAFE_MODE = ""

\* the Error getOption throws for a missing option
NotFound(name) == Throw("Option '" \o name \o "' doesn't exist")

\* C1: a second initStartupOptions run right after a first one leaves the
\* option map as the first run left it: it creates no option and changes no
\* value.
C1_SecondRunChangesNothing ==
    (Did("initStartupOptions") /\ runs >= 2)
        => getOptionMap(current) = getOptionMap(previous)

\* a second run in a row, on a store seeded with a non-default locale
C1_Witness ==
    /\ Did("initStartupOptions") /\ runs >= 2
    /\ \E o \in becca_options : o.name = "locale" /\ o.value # "en"
    /\ "codeBlockTheme" \in names(becca_options)

\* C2: with no environment override, every option that exists before
\* initStartupOptions runs has the same value and isSynced flag after it.
C2_ExistingOptionsKept ==
    (Did("initStartupOptions") /\ NoOverride)
        => \A o \in prev_options : o \in becca_options

\* a run without override over a locale whose value and flag differ from the
\* default table's
C2_Witness ==
    /\ Did("initStartupOptions") /\ NoOverride
    /\ \E o \in prev_options :
          o.name = "locale" /\ o.value # "en" /\ ~o.isSynced
    /\ "theme" \in names(prev_options)

\* C3: after initStartupOptions every name of the effective default table
\* exists, and each name absent before the run has the descriptor's resolved
\* value and the descriptor's isSynced flag.
C3_DefaultsCreated ==
    Did("initStartupOptions")
        => /\ LET table  == allDefaultOptions
                   before == getOptionMap(previous)
               IN  \A i \in 1..Len(table) :
                      \E o \in becca_options :
                         /\ o.name = table[i].name
                         /\ table[i].name \notin DOMAIN before
                              => /\ o.value = resolvedValue(table[i].value,
                                                            before)
                                 /\ o.isSynced = table[i].isSynced
           /\ "locale" \notin names(prev_options)
                => BOption("locale", "en", TRUE) \in becca_options
           /\ "zoomFactor" \notin names(prev_options)
                => \/ BOption("zoomFactor", "0.9", FALSE) \in becca_options
                   \/ BOption("zoomFactor", "1.0", FALSE) \in becca_options
           /\ "keyboardShortcutsJumpToNote" \notin names(prev_options)
                => BOption("keyboardShortcutsJumpToNote",
                           "[\"CommandOrControl+J\"]", FALSE)
                       \in becca_options
           /\ "keyboardShortcutsForceSave" \notin names(prev_options)
                => BOption("keyboardShortcutsForceSave", "[]", FALSE)
                       \in becca_options

\* a run on a store that lacked locale and codeBlockTheme and held a theme
C3_Witness ==
    /\ Did("initStartupOptions")
    /\ "locale" \notin names(prev_options)
    /\ "codeBlockTheme" \notin names(prev_options)
    /\ \E o \in prev_options : o.name = "theme" /\ o.value = "light"
    /\ BOption("codeBlockTheme", "default:stackoverflow-light", FALSE)
           \in becca_options

\* C4 (as claimed): createOption on a name that already exists leaves the
\* existing option's value and isSynced flag unchanged.
C4_CreateExistingKeepsOption ==
    DidOnExisting("createOption")
        => \A o \in prev_options :
              o.name = lastCall.name => o \in becca_options

C6_IsSyncedNeverChanges ==
    \A o \in prev_options : \A o2 \in becca_options :
        o2.name = o.name => o2.isSynced = o.isSynced

\* C7: setOption on a name that does not exist creates the option with the
\* given value and isSynced = FALSE, whatever the default table says.
C7_SetCreatesLocalOnly ==
    DidOnAbsent("setOption")
        => /\ BOption(lastCall.name, lastCall.value, FALSE) \in becca_options
           /\ names(becca_options) = names(prev_options) \cup {lastCall.name}

\* setOption created locale, whose descriptor has isSynced = TRUE
C7_Witness ==
    /\ DidOnAbsent("setOption")
    /\ lastCall.name = "locale"
    /\ \E i \in 1..Len(allDefaultOptions) :
          allDefaultOptions[i].name = "locale" /\ allDefaultOptions[i].isSynced

\* C8: setOption on an existing option makes getOption return the value,
\* and leaves every other option and every isSynced flag unchanged.
C8_SetUpdatesValueOnly ==
    DidOnExisting("setOption")
        => /\ getOption(current, becca_loaded, lastCall.name)
                = Value(lastCall.value)
           /\ \A o \in prev_options :
                 o.name # lastCall.name => o \in becca_options
           /\ \A o \in prev_options :
                 \E o2 \in becca_options :
                    o2.name = o.name /\ o2.isSynced = o.isSynced
           /\ names(becca_options) = names(prev_options)

\* setOption changed the value of a synced option while others existed
C8_Witness ==
    /\ DidOnExisting("setOption")
    /\ \E o \in prev_options :
          o.name = lastCall.name /\ o.value # lastCall.value /\ o.isSynced
    /\ Cardinality(prev_options) >= 2

\* C9: createOption(n, v, s) on an absent name n followed by getOption(n)
\* returns exactly v.
C9_CreateThenGet ==
    DidOnAbsent("createOption")
        => getOption(current, becca_loaded, lastCall.name)
              = Value(lastCall.value)

\* createOption created a synced option on a non-empty store
C9_Witness ==
    /\ DidOnAbsent("createOption")
    /\ lastCall.isSynced
    /\ prev_options # {}

\* the names the accessors are asked for
AskedNames == InputNames \cup {"openNoteContexts", "codeBlockTheme",
                                "documentId", "keyboardShortcutsZoomIn",
                                "passwordVerificationHash"}

\* C10: for a name absent from the store getOptionOrNull returns null and
\* getOption throws NotFound; for a name present both return the stored
\* value.
C10_Lookup ==
    \A name \in AskedNames :
        LET stored == {o \in becca_options : o.name = name}
        IN  IF stored # {}
            THEN \A o \in stored :
                    /\ getOptionOrNull(current, becca_loaded, name)
                          = Value(o.value)
                    /\ getOption(current, becca_loaded, name) = Value(o.value)
            ELSE /\ getOptionOrNull(current, becca_loaded, name) = Null
                 /\ getOption(current, becca_loaded, name) = NotFound(name)

\* a store in which theme is present and locale is absent
C10_Witness ==
    /\ Did("setOption")
    /\ "theme" \in names(becca_options)
    /\ "locale" \notin names(becca_options)

\* C13: initStartupOptions creates a missing codeBlockTheme from the theme
\* the store holds when the run starts ("light" gives the light value, "dark"
\* the dark one), and leaves an existing codeBlockTheme as it is.
C13_ThemeDerived ==
    Did("initStartupOptions")
        => /\ "codeBlockTheme" \notin names(prev_options)
                => /\ BOption("theme", "light", FALSE) \in prev_options
                        => BOption("codeBlockTheme",
                                   "default:stackoverflow-light", FALSE)
                               \in becca_options
                   /\ (\E o \in prev_options :
                          o.name = "theme" /\ o.value = "dark")
                        => BOption("codeBlockTheme",
                                   "default:stackoverflow-dark", FALSE)
                               \in becca_options
           /\ \A o \in prev_options :
                 o.name = "codeBlockTheme" => o \in becca_options

\* a run that found a dark codeBlockTheme and a light theme in the store
C13_Witness ==
    /\ Did("initStartupOptions")
    /\ BOption("theme", "light", FALSE) \in prev_options
    /\ BOption("codeBlockTheme", "default:stackoverflow-dark", FALSE)
           \in prev_options \cap becca_options

\* the note path the environment override selects
overrideNotePath ==
    IF env_TRILIUM_START_NOTE_ID # "" THEN env_TRILIUM_START_NOTE_ID
                                      ELSE "root"

\* C14: with the start note id or the safe mode set, after initStartupOptions
\* openNoteContexts holds one active context on the start note (on 'root'
\* with safe mode alone) and every other option that existed is unchanged;
\* with neither set an existing openNoteContexts is unchanged.
C14_Override ==
    Did("initStartupOptions")
        => IF NoOverride
           THEN \A o \in prev_options :
                   o.name = "openNoteContexts" => o \in becca_options
           ELSE /\ getOption(current, becca_loaded, "openNoteContexts")
                     = Value(openNoteContextsJson(overrideNotePath))
                /\ \A o \in prev_options :
                      o.name # "openNoteContexts" => o \in becca_options

\* safe mode alone, on a store whose openNoteContexts the bootstrap created
C14_Witness ==
    /\ Did("initStartupOptions")
    /\ env_TRILIUM_START_NOTE_ID = "" /\ env_TRILIUM_SAFE_MODE # ""
    /\ "openNoteContexts" \in names(prev_options)
    /\ "initialized" \in names(prev_options)
    /\ getOption(current, becca_loaded, "openNoteContexts")
          = Value(openNoteContextsJson("root"))

DocumentNames == {"documentId", "documentSecret"}

NotSyncedNames ==
    {"openNoteContexts", "lastDailyBackupDate", "lastWeeklyBackupDate",
     "lastMonthlyBackupDate", "dbVersion", "initialized", "lastSyncedPull",
     "lastSyncedPush", "theme", "syncServerHost", "syncServerTimeout",
     "syncProxy"}

\* the arguments of the last initNotSyncedOptions call: lastCall keeps the
\* initialized flag, which tells the members of NotSyncedArgs apart
lastArgs == CHOOSE args \in NotSyncedArgs : args.initialized = lastCall.isSynced

\* C16: on an empty store initDocumentOptions creates documentId and
\* documentSecret, and initNotSyncedOptions the twelve instance options, all
\* with isSynced = FALSE, initialized being "true" or "false" as the
\* parameter says and syncServerHost and syncProxy "" when opts lacks them.
C16_Bootstrap ==
    /\ (Did("initDocumentOptions") /\ prev_options = {})
          => /\ names(becca_options) = DocumentNames
             /\ \A o \in becca_options : ~o.isSynced
    /\ (Did("initNotSyncedOptions") /\ names(prev_options) \subseteq DocumentNames)
          => /\ names(becca_options) = names(prev_options) \cup NotSyncedNames
             /\ \A o \in becca_options : ~o.isSynced
             /\ BOption("initialized",
                        IF lastCall.isSynced THEN "true" ELSE "false", FALSE)
                    \in becca_options
             /\ \A field \in {"syncServerHost", "syncProxy"} :
                   field \notin DOMAIN lastArgs.opts
                       => BOption(field, "", FALSE) \in becca_options

\* the two bootstrap calls on an empty store, the second without opts
C16_Witness ==
    /\ Did("initNotSyncedOptions")
    /\ names(prev_options) = DocumentNames
    /\ DOMAIN lastArgs.opts = {}
    /\ BOption("syncProxy", "", FALSE) \in becca_options
    /\ BOption("initialized", "true", FALSE) \in becca_options

\* C17: no call removes an option: every name in the store before a call is
\* in the store after it.
C17_NeverShrinks == names(prev_options) \subseteq names(becca_options)

\* initStartupOptions ran on a store holding options no descriptor names
C17_Witness ==
    /\ Did("initStartupOptions")
    /\ DocumentNames \subseteq names(prev_options)
    /\ DocumentNames \subseteq names(becca_options)

----------------------------------------------------------------------------
(* Properties of the typed accessors, under SpecTyped                      *)

\* the Error getOptionInt and getOptionBool throw for a value of the wrong
\* form
ParseError(type, name, value) ==
    Throw("Could not parse '" \o value \o "' into " \o type
          \o " for option '" \o name \o "'")

DecimalDigits == {"0","1","2","3","4","5","6","7","8","9"}

\* cs spells a base-10 integer: an optional minus sign and decimal digits
IsDecimalInteger(cs) ==
    LET digits == IF cs # <<>> /\ Head(cs) = "-" THEN Tail(cs) ELSE cs
    IN  /\ digits # <<>>
        /\ \A i \in 1..Len(digits) : digits[i] \in DecimalDigits

\* the integer a sequence of decimal digits denotes
RECURSIVE decimalValue(_)
decimalValue(digits) ==
    IF digits = <<>> THEN 0
    ELSE 10 * decimalValue(SubSeq(digits, 1, Len(digits) - 1))
           + digitValue(digits[Len(digits)])

DecimalInteger(cs) ==
    IF Head(cs) = "-" THEN 0 - decimalValue(Tail(cs)) ELSE decimalValue(cs)

DefaultValues == {undefined, Number(7)}

NumberNames == {"mainFontSize", "treeFontSize"}

BooleanNames == {"spellCheckEnabled"}

\* C11 (as claimed): getOptionInt returns the base-10 integer the stored
\* string denotes, and for a stored string that is no base-10 integer the
\* default when one is given, else it throws ParseError.
C11_DecimalOrDefault ==
    \A o \in becca_options : \A d \in DefaultValues :
        o.name \in NumberNames
            => getOptionInt(current, becca_loaded, o.name, d)
                 = IF IsDecimalInteger(charsOf(o.value))
                   THEN Number(DecimalInteger(charsOf(o.value)))
                   ELSE IF d # undefined THEN d
                   ELSE ParseError("integer", o.name, o.value)

\* C12: getOptionBool returns true for "true", false for "false", and throws
\* ParseError for every other stored string.
C12_TwoLiterals ==
    \A o \in becca_options :
        o.name \in BooleanNames
            => getOptionBool(current, becca_loaded, o.name)
                 = IF o.value = "true" THEN Boolean(TRUE)
                   ELSE IF o.value = "false" THEN Boolean(FALSE)
                   ELSE ParseError("boolean", o.name, o.value)

\* the boolean option holds "TRUE", which differs from "true" by case only
C12_Witness ==
    /\ Did("setOption")
    /\ BOption("spellCheckEnabled", "TRUE", FALSE) \in becca_options

\* C19: getOptionInt on a name that does not exist throws the Error of
\* getOption, with a default or without one; the default is returned only
\* for a stored value that parseInt cannot read.
C19_MissingIsNotDefaulted ==
    \A name \in NumberNames : \A d \in DefaultValues :
        LET result == getOptionInt(current, becca_loaded, name, d)
        IN  /\ name \notin names(becca_options) => result = NotFound(name)
            /\ (name \in names(becca_options) /\ d # undefined /\ result = d)
                  => parseInt(charsOf(getOption(current, becca_loaded,
                                                name).value)) \in {NaN, d}

\* one number option is missing while the other holds an unreadable value
C19_Witness ==
    /\ Did("setOption")
    /\ BOption("mainFontSize", "abc", FALSE) \in becca_options
    /\ "treeFontSize" \notin names(becca_options)
    /\ getOptionInt(current, becca_loaded, "mainFontSize", Number(7))
          = Number(7)

----------------------------------------------------------------------------
(* Properties of getOptionMap, under SpecSnapshot                          *)

\* the name-to-value mapping of a set of options
mappingOf(options) ==
    [n \in names(options) |->
        (CHOOSE o \in options : o.name = n).value]

----------------------------------------------------------------------------
(* Properties of a failing startup, under SpecFailure                      *)

\* the position of a name in the effective default table
indexOf(name) ==
    CHOOSE i \in 1..Len(allDefaultOptions) : allDefaultOptions[i].name = name

\* the last initStartupOptions call reached a createOption that failed
SaveFailed ==
    /\ Did("initStartupOptions")
    /\ lastCall.name \in FailingNames
    /\ lastCall.name \notin names(prev_options)

\* C18: when a createOption of initStartupOptions fails, the call throws,
\* neither the failing descriptor nor any later one is created, and
\* openNoteContexts is as it was, whatever the environment asks for.
C18_FailurePropagates ==
    SaveFailed
        => /\ lastCall.value = "thrown"
           /\ \A i \in indexOf(lastCall.name)..Len(allDefaultOptions) :
                 allDefaultOptions[i].name \notin names(prev_options)
                     => allDefaultOptions[i].name \notin names(becca_options)
           /\ \A o \in becca_options :
                 o.name = "openNoteContexts" => o \in prev_options

\* the save of locale failed while the environment asked for the override:
\* the descriptors before locale were created
C18_Witness ==
    /\ SaveFailed
    /\ lastCall.name = "locale"
    /\ ~NoOverride
    /\ "revisionSnapshotTimeInterval" \in names(becca_options)
    /\ "revisionSnapshotTimeInterval" \notin names(prev_options)

----------------------------------------------------------------------------
(* Properties of the life of a new database, under SpecStartup             *)

\* the descriptors initStartupOptions calls createOption for: those whose
\* name is not in the map read when the call started
createCalls(options) ==
    {i \in 1..Len(allDefaultOptions) :
        allDefaultOptions[i].name \notin names(options)}

\* C20: from an empty store, through the bootstrap and any number of
\* initStartupOptions calls, every createOption call is for a name the store
\* does not hold at that moment: each call adds one option, so the store
\* grows by the number of calls made.
C20_CreatesOnlyAbsent ==
    /\ Did("bootstrap")
          => Cardinality(becca_options)
                = Cardinality(prev_options) + Cardinality(DocumentNames)
                    + Cardinality(NotSyncedNames)
    /\ Did("initStartupOptions")
          => Cardinality(becca_options)
                = Cardinality(prev_options)
                    + Cardinality(createCalls(prev_options))

\* a second startup of a bootstrapped database
C20_Witness ==
    /\ Did("initStartupOptions") /\ runs >= 2
    /\ DocumentNames \cup NotSyncedNames \subseteq names(becca_options)
    /\ createCalls(prev_options) = {}

----------------------------------------------------------------------------
(* Properties of a run after a failed one, under SpecFailure               *)

\* the option map a complete initStartupOptions run leaves from a store
mapAfterRun(st) ==
    getOptionMap(initStartupOptions(st, env_TRILIUM_START_NOTE_ID,
                                    env_TRILIUM_SAFE_MODE))

\* C21: after an initStartupOptions run that a failed save ended, the
\* options the run found and those it created before the failure are in the
\* store, and a complete run from there leaves the option map that a
\* complete run from the store before the failed run leaves.
C21_ResumedRunCatchesUp ==
    SaveFailed
        => /\ prev_options \subseteq becca_options
           /\ \A i \in 1..(indexOf(lastCall.name) - 1) :
                 allDefaultOptions[i].name \in names(becca_options)
           /\ mapAfterRun(current) = mapAfterRun(previous)

\* the save of locale failed in a store with a light theme, before
\* codeBlockTheme was reached: the run created the options before locale
C21_Witness ==
    /\ SaveFailed
    /\ lastCall.name = "locale"
    /\ BOption("theme", "light", FALSE) \in prev_options
    /\ "codeBlockTheme" \notin names(becca_options)
    /\ Cardinality(becca_options) > Cardinality(prev_options)

----------------------------------------------------------------------------
(* Properties of setOption and getOptionOrNull, under SpecProcess          *)

\* C22 (as claimed): for a name getOptionOrNull reports as present, with
\* becca loaded or not, setOption updates the option: the option and its row
\* keep their isSynced flag and get the value.
C22_SetUpdatesWhatLookupFinds ==
    \A name \in InputNames : \A value \in InputValues :
        getOptionOrNull(current, becca_loaded, name) # Null
            => \A r \in sql_getRow(current, name) :
                  [r EXCEPT !.value = value]
                      \in setOption(current, name, value).rows

====
